---- MODULE Spec2Model ----
(***************************************************************************)
(* Payment settlement pipeline of the storefront backend:                  *)
(*   POST /api/razorpay/create-order    (payment intent)                   *)
(*   POST /api/razorpay/verify-payment  (settle)                           *)
(*   POST /api/razorpay/refund          (refund)                           *)
(*   POST, PUT, DELETE /api/orders, PUT /api/orders/:id/status             *)
(*   POST /api/payments, PUT /api/payments/:id, PUT /api/payments/:id/status *)
(* over the Order and Payment collections and their mongoose schemas.      *)
(*                                                                         *)
(* Every request is a process that runs from one await to the next in one  *)
(* atomic step (single-threaded event loop); the steps of different        *)
(* requests interleave freely at the awaits.                               *)
(*                                                                         *)
(* Money in major units (rupees) is an exact decimal counted in            *)
(* thousandths (1000 == 1.000), money in minor units (paise) is an         *)
(* integer.  A missing (undefined / empty) string field is "", a missing   *)
(* ObjectId is 0.                                                          *)
(***************************************************************************)
EXTENDS Integers, Sequences, FiniteSets, TLC

VARIABLES
    orders,       \* the Order collection: a set of documents
    payments,     \* the Payment collection: a set of documents
    nextId,       \* source of fresh ObjectIds
    settle,       \* settle[s]: request s, when it is a verify-payment request
    refund,       \* refund[r]: request r, when it is a refund request
    calls,        \* number of requests received so far
    gwFetches,    \* number of razorpay.payments.fetch calls issued
    gwRefunded,   \* gwRefunded[p]: paise the gateway has refunded on payment p
    crud,         \* crud[c]: request c, when it is a request of /api/orders or
                  \* /api/payments or a create-order request
    gwOrders,     \* the razorpay.orders.create calls issued, in their order
    money         \* an amount on its way to minor units and back

vars == <<orders, payments, nextId, settle, refund, calls, gwFetches, gwRefunded, crud,
          gwOrders, money>>

-----------------------------------------------------------------------------
(* Bounds *)

MaxCalls == 2             \* requests received in one behaviour
MaxOrderCalls == 3        \* requests received in one behaviour of /api/orders alone
MaxMoney == 3000          \* largest amount converted, in thousandths of a major unit

\* requests are numbered in the order of their arrival
SettleIds == 1..MaxCalls
RefundIds == 1..MaxCalls
CrudIds == 1..MaxOrderCalls

-----------------------------------------------------------------------------
(* Program constants *)

KeySecret == "KVRm4qSsf2kMhVD2fKvr0AZj"
PaisePerRupee == 100
OrderNumberWidth == 6
Milli == 10 * PaisePerRupee      \* thousandths in one major unit

-----------------------------------------------------------------------------
(* Inputs *)

GatewayOrderIds == {"order_1", "order_2"}
KnownPayments == {"pay_1"}                  \* payments the gateway holds
GatewayAmount == 2 * PaisePerRupee          \* paise charged on each of them

\* crypto.createHmac("sha256", key).update(body).digest("hex"): a keyed
\* digest, taken to be collision free.
Hmac(key, body) == "hmac-sha256(" \o key \o "," \o body \o ")"

\* the signature the gateway hands out for order_1 and a payment
Signed(pid) == Hmac(KeySecret, "order_1" \o "|" \o pid)

\* req.body of POST /verify-payment without orderData: a field is missing,
\* or all are there and the signature is the one for order_1
Requests ==
    [oid : GatewayOrderIds, pid : KnownPayments, sig : {Signed(p) : p \in KnownPayments}]
    \cup {[oid |-> "", pid |-> p, sig |-> Signed(p)] : p \in KnownPayments}
    \cup {[oid |-> "order_1", pid |-> "", sig |-> Signed(p)] : p \in KnownPayments}
    \cup {[oid |-> "order_1", pid |-> p, sig |-> ""] : p \in KnownPayments}

\* req.body.orderData.products[i]
GoodProduct ==
    [id |-> "64b7f0c2a1d3e4f5a6b7c8d9", name |-> "Gown", quantity |-> 2, price |-> 1000,
     rental_price |-> 0]
NamelessProduct ==
    [id |-> "64b7f0c2a1d3e4f5a6b7c8d9", name |-> "", quantity |-> 0, price |-> 0,
     rental_price |-> 500]

\* req.body.orderData; present = FALSE is a request without orderData
NoDraft == [present |-> FALSE, products |-> <<>>, totalPrice |-> 0, orderId |-> 0]
\* an orderId sent by the client that cannot be cast to an ObjectId
NotAnObjectId == 0 - 1
Draft(products, totalPrice, orderId) ==
    [present |-> TRUE, products |-> products, totalPrice |-> totalPrice, orderId |-> orderId]
Drafts ==
    {NoDraft,
     Draft(<<GoodProduct>>, 2000, 0),
     Draft(<<NamelessProduct>>, 2000, 0),
     Draft(<<GoodProduct>>, 2000, 1),
     Draft(<<GoodProduct>>, 2000, NotAnObjectId)}

\* what razorpay.payments.fetch resolves to, or its rejection
FetchOutcomes ==
    [ok : {TRUE}, status : {"captured", "authorized"}, amount : {GatewayAmount}]
    \cup {[ok |-> FALSE, status |-> "", amount |-> 0]}

\* the status of a refund as the gateway reports it
GatewayRefundStatuses == {"processed", "pending"}

\* req.body of POST /refund; hasAmount = FALSE is a body without amount
RefundBody(payment_id, hasAmount, amount, reason) ==
    [payment_id |-> payment_id, hasAmount |-> hasAmount, amount |-> amount,
     reason |-> reason]
RefundRequests ==
    {RefundBody("", FALSE, 0, "")} \cup
    UNION {{RefundBody(p, FALSE, 0, ""),
            RefundBody(p, TRUE, 0, ""),
            RefundBody(p, TRUE, 1000, "Damaged"),
            RefundBody(p, TRUE, 3000, "")} : p \in KnownPayments}

\* enums of orderSchema.status and of orderSchema.payment.method
OrderStatusEnum ==
    {"Pending", "Confirmed", "Processing", "Shipped", "Delivered", "Cancelled", "Returned"}
OrderPaymentMethodEnum ==
    {"Credit Card", "Debit Card", "PayPal", "Bank Transfer", "Cash on Delivery", "Razorpay"}

\* a document id in the path of a request: the first two ObjectIds the
\* database hands out; an id that no document of the collection has is an
\* unknown id
PathIds == {1, 2}

\* req.body of POST /api/orders.  customerInfo and pricing tell whether the
\* body has that object, status and orderNumber are "" when the body has none
OrderBody(customerInfo, items, pricing, total, method, status, orderNumber) ==
    [customerInfo |-> customerInfo, items |-> items, pricing |-> pricing,
     total |-> total, method |-> method, status |-> status, orderNumber |-> orderNumber]
NoOrderBody == OrderBody(FALSE, <<>>, FALSE, 0, "", "", "")
GoodItems ==
    <<[productId |-> GoodProduct.id, productName |-> GoodProduct.name, quantity |-> 2,
       unitPrice |-> 1000, totalPrice |-> 2000]>>
OrderBodies ==
    {OrderBody(TRUE, GoodItems, TRUE, 2000, "Cash on Delivery", "", ""),
     OrderBody(TRUE, GoodItems, TRUE, 2000, "Cash on Delivery", "", "ORD-000001"),
     OrderBody(TRUE, GoodItems, TRUE, 2000, "Cheque", "", ""),
     OrderBody(TRUE, GoodItems, TRUE, 2000, "Cash on Delivery", "Archived", ""),
     OrderBody(TRUE, GoodItems, TRUE, 0, "Cash on Delivery", "", ""),
     OrderBody(TRUE, <<>>, TRUE, 2000, "Cash on Delivery", "", ""),
     OrderBody(FALSE, GoodItems, TRUE, 2000, "Cash on Delivery", "", "")}

\* req.body of PUT /api/orders/:id and of PUT /api/payments/:id: the paths
\* it sets (hasTotal: pricing.total, status # "": status, hasCompletedAt:
\* timestamps.completedAt)
Patch(hasTotal, total, status, hasCompletedAt, completedAt) ==
    [hasTotal |-> hasTotal, total |-> total, status |-> status,
     hasCompletedAt |-> hasCompletedAt, completedAt |-> completedAt]
NoPatch == Patch(FALSE, 0, "", FALSE, 0)
OrderPatches ==
    {Patch(TRUE, 0, "", FALSE, 0), Patch(TRUE, 0 - 1000, "", FALSE, 0),
     Patch(FALSE, 0, "Returned", FALSE, 0), Patch(FALSE, 0, "Archived", FALSE, 0)}

\* req.body of POST /api/payments.  orderId is 0 and status and paymentId
\* are "" when the body has none; the customer and the other required
\* fields are present
PaymentBody(orderId, orderNumber, method, subtotal, status, paymentId) ==
    [orderId |-> orderId, orderNumber |-> orderNumber, method |-> method,
     subtotal |-> subtotal, status |-> status, paymentId |-> paymentId]
NoPaymentBody == PaymentBody(0, "", "", 0, "", "")
PaymentBodies ==
    {PaymentBody(1, "ORD-000001", "Cash on Delivery", 2000, "", ""),
     PaymentBody(1, "ORD-000001", "Cash on Delivery", 2000, "Refunded", ""),
     PaymentBody(1, "ORD-000001", "Cash on Delivery", 2000, "Archived", ""),
     PaymentBody(1, "ORD-000001", "Cheque", 2000, "", ""),
     PaymentBody(1, "ORD-000001", "Cash on Delivery", 0, "", ""),
     PaymentBody(0, "ORD-000001", "Cash on Delivery", 2000, "", "")}

\* req.body of POST /create-order.  amount 0 is a body without amount (or
\* with amount 0), currency "" a body without currency, receipt "" a body
\* without receipt
IntentBody(amount, currency, receipt) ==
    [amount |-> amount, currency |-> currency, receipt |-> receipt]
NoIntentBody == IntentBody(0, "", "")
IntentAmounts == {0 - 1000, 0, 1, 125, 1150, 2000}
IntentBodies ==
    {IntentBody(a, "INR", "rcpt_1") : a \in IntentAmounts} \cup
    {IntentBody(2000, "", "rcpt_1"), IntentBody(2000, "USD", "rcpt_1"),
     IntentBody(2000, "INR", ""), IntentBody(0, "USD", "")}

\* the amounts whose conversion is examined on its own
MoneyAmounts == 0..MaxMoney

\* req.body.status of PUT /api/orders/:id/status
OrderStatusInputs == OrderStatusEnum \cup {"Archived"}

\* enum of paymentSchema.status and of paymentSchema.refundDetails.refundStatus
PaymentStatusEnum ==
    {"Pending", "Processing", "Completed", "Failed", "Cancelled", "Refunded",
     "Partially Refunded"}
RefundStatusEnum == {"Pending", "Processed", "Failed"}

-----------------------------------------------------------------------------
(* Helpers of the handlers *)

RECURSIVE PadStart(_, _, _)
PadStart(str, width, fill) ==
    IF Len(str) >= width THEN str ELSE PadStart(fill \o str, width, fill)

OrderNumber(count) == "ORD-" \o PadStart(ToString(count + 1), OrderNumberWidth, "0")

\* Math.round(amount * 100) on a decimal in thousandths: nearest paisa,
\* halves towards +infinity
ToPaise(amount) == (amount * PaisePerRupee + Milli \div 2) \div Milli

\* Math.round(amount * 100) in double arithmetic.  A decimal amount is
\* stored as the nearest double, so amount * 100 is off by a few units in
\* the last place unless the amount is a multiple of 1/8; this only matters
\* for an amount that lies halfway between two paise, which can then come
\* out on either side
RoundedPaise(amount) ==
    IF amount % 10 = 5 /\ amount % 125 # 0
    THEN {amount \div 10, amount \div 10 + 1}
    ELSE {ToPaise(amount)}

\* paise / 100 as a decimal in thousandths
FromPaise_NoDivision(paise) == paise * Milli
FromPaise(paise) == (paise * Milli) \div PaisePerRupee

Response(code, error, payment) == [code |-> code, error |-> error, payment |-> payment]
NoResponse == Response(0, "", 0)

MissingVerificationData(req) == req.oid = "" \/ req.pid = "" \/ req.sig = ""

ExpectedSignature(req) == Hmac(KeySecret, req.oid \o "|" \o req.pid)

IsAuthentic_AnySignature(req) == req.sig # ""
IsAuthentic(req) == ExpectedSignature(req) = req.sig

FetchFailed_Swallowed(outcome) == FALSE
FetchFailed(outcome) == ~outcome.ok

OrderItem(product) ==
    LET unit == IF product.price # 0 THEN product.price ELSE product.rental_price
        qty == IF product.quantity # 0 THEN product.quantity ELSE 1
    IN [productId |-> product.id, productName |-> product.name,
        quantity |-> qty, unitPrice |-> unit, totalPrice |-> unit * qty]

\* payment.paidAt is not in the payload and has no default: 0 is unset
OrderPayload_Paid(req, draft) ==
    [items |-> [i \in DOMAIN draft.products |-> OrderItem(draft.products[i])],
     subtotal |-> draft.totalPrice,
     total |-> draft.totalPrice,
     payMethod |-> "Razorpay",
     payStatus |-> "Paid",
     paidAt |-> 0,
     transactionId |-> req.pid,
     status |-> "Pending"]
OrderPayload(req, draft) ==
    [items |-> [i \in DOMAIN draft.products |-> OrderItem(draft.products[i])],
     subtotal |-> draft.totalPrice,
     total |-> draft.totalPrice,
     payMethod |-> "Razorpay",
     payStatus |-> "Pending",
     paidAt |-> 0,
     transactionId |-> req.pid,
     status |-> "Pending"]

\* a string that casts to an ObjectId: 24 hex digits
ObjectIdLength == 24
IsObjectId(str) == Len(str) = ObjectIdLength

\* orderSchema validators that the payload of verify-payment can fail
ValidOrder(payload) ==
    /\ \A i \in DOMAIN payload.items :
          /\ IsObjectId(payload.items[i].productId)
          /\ payload.items[i].productName # ""
          /\ payload.items[i].quantity >= 1
          /\ payload.items[i].unitPrice >= 0
          /\ payload.items[i].totalPrice >= 0
    /\ payload.subtotal >= 0
    /\ payload.total >= 0

\* a Payment created without refundDetails gets the schema default only
NoRefundDetails ==
    [refundId |-> "", refundAmount |-> 0, refundStatus |-> "Pending",
     refundReason |-> "", refundedAt |-> ""]

\* new Date() as read by request c: the instants of different requests
\* differ, 0 is a timestamp that is not set (null)
Now(c) == c

\* paymentData.status
SettledStatus_AlwaysCompleted(gw) == "Completed"
SettledStatus(gw) == IF gw.status = "captured" THEN "Completed" ELSE "Processing"

\* paymentData.timestamps
SettledTimestamps(gw, now) ==
    [initiatedAt |-> now,
     processedAt |-> now,
     completedAt |-> IF gw.status = "captured" THEN now ELSE 0,
     failedAt |-> 0]

PaymentData(req, draft, gw, order, now) ==
    LET amount == IF draft.totalPrice # 0 THEN draft.totalPrice ELSE FromPaise(gw.amount)
    IN [paymentId |-> req.pid,
        orderNumber |-> order.orderNumber,
        orderId |-> IF draft.orderId # 0 THEN draft.orderId ELSE order.id,
        razorpayPaymentId |-> req.pid,
        subtotal |-> amount,
        total |-> amount,
        status |-> SettledStatus(gw),
        timestamps |-> SettledTimestamps(gw, now),
        refundDetails |-> NoRefundDetails]

\* validation of the Payment document of settle: every required field is
\* given or defaulted, so only the cast of orderId to an ObjectId can fail
ValidPaymentData(payment) == payment.orderId # NotAnObjectId

\* the unique indexes on orderNumber and on paymentId
OrderNumberTaken_NoIndex(number) == FALSE
OrderNumberTaken(number) == \E o \in orders : o.orderNumber = number
PaymentIdTaken(paymentId) == \E p \in payments : p.paymentId = paymentId

-----------------------------------------------------------------------------
(* State *)

IdleSettle ==
    [pc |-> "idle", req |-> [oid |-> "", pid |-> "", sig |-> ""],
     draft |-> NoDraft, gw |-> [ok |-> FALSE, status |-> "", amount |-> 0],
     count |-> 0, order |-> 0, resp |-> NoResponse]

\* res.status(code).json({error, data}): doc is the id and status the
\* status of the document in data, 0 and "" when the body has no data
Answer(code, error, doc, status) ==
    [code |-> code, error |-> error, doc |-> doc, status |-> status]
NoAnswer == Answer(0, "", 0, "")

IdleCrud ==
    [op |-> "", pc |-> "idle", id |-> 0, status |-> "", body |-> NoOrderBody,
     pay |-> NoPaymentBody, intent |-> NoIntentBody, patch |-> NoPatch, count |-> 0,
     resp |-> NoAnswer]

\* no amount is being converted
NoMoney == [pc |-> "idle", amount |-> 0, paise |-> 0, back |-> 0]

IdleRefund ==
    [pc |-> "idle",
     req |-> [payment_id |-> "", hasAmount |-> FALSE, amount |-> 0, reason |-> ""],
     options |-> [payment_id |-> "", hasAmount |-> FALSE, amount |-> 0],
     rf |-> [ok |-> FALSE, id |-> "", amount |-> 0, status |-> ""],
     doc |-> [id |-> 0, status |-> "", refundDetails |-> NoRefundDetails],
     resp |-> NoResponse]

\* empty collections, no request received
Empty ==
    /\ orders = {}
    /\ payments = {}
    /\ nextId = 1
    /\ settle = [s \in SettleIds |-> IdleSettle]
    /\ refund = [r \in RefundIds |-> IdleRefund]
    /\ calls = 0
    /\ gwFetches = 0
    /\ gwRefunded = [p \in KnownPayments |-> 0]
    /\ crud = [c \in CrudIds |-> IdleCrud]
    /\ gwOrders = <<>>

Init == Empty /\ money = NoMoney

\* an amount of the range arrives at the gateway boundary
MoneyInit ==
    /\ Empty
    /\ \E a \in MoneyAmounts : money = [NoMoney EXCEPT !.pc = "major", !.amount = a]

Reply(s, code, error, payment) ==
    settle' = [settle EXCEPT ![s].pc = "done", ![s].resp = Response(code, error, payment)]

-----------------------------------------------------------------------------
(* POST /verify-payment *)

\* entry up to the call of razorpay.payments.fetch
SettleStart(s) ==
    /\ settle[s].pc = "idle"
    /\ s = calls + 1
    /\ calls' = calls + 1
    /\ \E req \in Requests :
          IF MissingVerificationData(req)
          THEN /\ settle' = [settle EXCEPT ![s].pc = "done", ![s].req = req,
                      ![s].resp = Response(400, "Missing payment verification data", 0)]
               /\ UNCHANGED gwFetches
          ELSE IF ~IsAuthentic(req)
          THEN /\ settle' = [settle EXCEPT ![s].pc = "done", ![s].req = req,
                      ![s].resp = Response(400, "Invalid payment signature", 0)]
               /\ UNCHANGED gwFetches
          ELSE /\ settle' = [settle EXCEPT ![s].pc = "fetch", ![s].req = req]
               /\ gwFetches' = gwFetches + 1
    /\ UNCHANGED <<gwOrders, money, crud, orders, payments, nextId, refund, gwRefunded>>

\* the fetch settles; orderPayload is built and Order.create validates it and
\* enters the pre-save hook, which awaits countDocuments.  orderData is part
\* of the request body; it is drawn here, where the handler first reads it.
SettleFetched(s) ==
    /\ settle[s].pc = "fetch"
    /\ \E outcome \in FetchOutcomes, draft \in Drafts :
          IF FetchFailed(outcome)
          THEN Reply(s, 500, "Failed to verify payment", 0)
          ELSE IF ~ValidOrder(OrderPayload(settle[s].req, draft))
          THEN settle' = [settle EXCEPT ![s].pc = "done", ![s].draft = draft, ![s].gw = outcome,
                     ![s].resp = Response(500, "Failed to verify payment", 0)]
          ELSE settle' = [settle EXCEPT ![s].pc = "orderCount", ![s].draft = draft,
                     ![s].gw = outcome]
    /\ UNCHANGED <<gwOrders, money, crud, calls, orders, payments, nextId, refund, gwFetches, gwRefunded>>

\* countDocuments resolves; the hook sets orderNumber and the insert is sent
SettleOrderCounted(s) ==
    /\ settle[s].pc = "orderCount"
    /\ settle' = [settle EXCEPT ![s].pc = "orderInsert", ![s].count = Cardinality(orders)]
    /\ UNCHANGED <<gwOrders, money, crud, calls, orders, payments, nextId, refund, gwFetches, gwRefunded>>

\* the Order insert settles; paymentData is built and Payment.create sends
\* its insert (paymentId is set, so the Payment pre-save hook does nothing)
SettleOrderInserted_PaymentAnyway(s) ==
    /\ settle[s].pc = "orderInsert"
    /\ LET number == OrderNumber(settle[s].count)
           order == [id |-> nextId, orderNumber |-> number]
                      @@ OrderPayload(settle[s].req, settle[s].draft)
       IN IF OrderNumberTaken(number)
          THEN /\ settle' = [settle EXCEPT ![s].pc = "paymentInsert"]
               /\ UNCHANGED <<orders, nextId>>
          ELSE /\ orders' = orders \cup {order}
               /\ nextId' = nextId + 1
               /\ settle' = [settle EXCEPT ![s].pc = "paymentInsert", ![s].order = order.id]
    /\ UNCHANGED <<gwOrders, money, crud, calls, payments, refund, gwFetches, gwRefunded>>
SettleOrderInserted(s) ==
    /\ settle[s].pc = "orderInsert"
    /\ LET number == OrderNumber(settle[s].count)
           order == [id |-> nextId, orderNumber |-> number]
                      @@ OrderPayload(settle[s].req, settle[s].draft)
       IN IF OrderNumberTaken(number)
          THEN /\ Reply(s, 500, "Failed to verify payment", 0)
               /\ UNCHANGED <<orders, nextId>>
          ELSE /\ orders' = orders \cup {order}
               /\ nextId' = nextId + 1
               /\ settle' = [settle EXCEPT ![s].pc = "paymentInsert", ![s].order = order.id]
    /\ UNCHANGED <<gwOrders, money, crud, calls, payments, refund, gwFetches, gwRefunded>>

\* the Payment insert settles
SettlePaymentInserted(s) ==
    /\ settle[s].pc = "paymentInsert"
    /\ LET order == [id |-> settle[s].order, orderNumber |-> OrderNumber(settle[s].count)]
           payment == [id |-> nextId]
                        @@ PaymentData(settle[s].req, settle[s].draft, settle[s].gw, order,
                                       Now(s))
       IN IF ~ValidPaymentData(payment) \/ PaymentIdTaken(payment.paymentId)
          THEN /\ Reply(s, 500, "Failed to verify payment", 0)
               /\ UNCHANGED <<payments, nextId>>
          ELSE /\ payments' = payments \cup {payment}
               /\ nextId' = nextId + 1
               /\ Reply(s, 200, "", payment.id)
    /\ UNCHANGED <<gwOrders, money, crud, calls, orders, refund, gwFetches, gwRefunded>>

-----------------------------------------------------------------------------
(* POST /refund *)

\* refundOptions as passed to razorpay.payments.refund
RefundOptions(req) ==
    IF req.hasAmount /\ req.amount # 0 /\ req.amount > 0
    THEN [payment_id |-> req.payment_id, hasAmount |-> TRUE, amount |-> ToPaise(req.amount)]
    ELSE [payment_id |-> req.payment_id, hasAmount |-> FALSE, amount |-> 0]

\* what razorpay.payments.refund resolves to in state gwRefunded, or its
\* rejection: the gateway may always be unavailable, and it refuses a refund
\* of an unknown or fully refunded payment or of more than what is left
RefundOutcomes(options) ==
    {[ok |-> FALSE, id |-> "", amount |-> 0, status |-> ""]} \cup
    IF options.payment_id \in KnownPayments
    THEN LET left == GatewayAmount - gwRefunded[options.payment_id]
             amount == IF options.hasAmount THEN options.amount ELSE left
         IN IF amount >= 1 /\ amount <= left
            THEN [ok : {TRUE}, id : {"rfnd_1"}, amount : {amount},
                  status : GatewayRefundStatuses]
            ELSE {}
    ELSE {}

RefundFailed_Swallowed(outcome) == FALSE
RefundFailed(outcome) == ~outcome.ok

\* the assignments to the loaded Payment document before payment.save();
\* refund.amount === payment.amount.total * 100 is taken on exact decimals
\* (the rounding error of the binary floating point product is left out)
RefundedDocument(payment, rf, req) ==
    [id |-> payment.id,
     refundDetails |->
        [refundId |-> rf.id,
         refundAmount |-> FromPaise(rf.amount),
         refundStatus |-> rf.status,
         refundReason |-> IF req.reason # "" THEN req.reason ELSE "Customer request",
         refundedAt |-> "now"],
     status |->
        IF rf.status = "processed"
        THEN IF rf.amount * Milli = payment.total * PaisePerRupee
             THEN "Refunded" ELSE "Partially Refunded"
        ELSE payment.status]

\* paymentSchema validators of the paths that refund modifies
ValidRefundedDocument(doc) ==
    /\ doc.refundDetails.refundStatus \in RefundStatusEnum
    /\ doc.refundDetails.refundAmount >= 0
    /\ doc.status \in PaymentStatusEnum

\* entry up to the call of razorpay.payments.refund
RefundStart(r) ==
    /\ refund[r].pc = "idle"
    /\ r = calls + 1
    /\ calls' = calls + 1
    /\ \E req \in RefundRequests :
          IF req.payment_id = ""
          THEN refund' = [refund EXCEPT ![r].pc = "done", ![r].req = req,
                     ![r].resp = Response(400, "Missing payment ID", 0)]
          ELSE refund' = [refund EXCEPT ![r].pc = "gateway", ![r].req = req,
                     ![r].options = RefundOptions(req)]
    /\ UNCHANGED <<gwOrders, money, crud, orders, payments, nextId, settle, gwFetches, gwRefunded>>

\* the gateway refund settles; Payment.findOne is sent
RefundGatewayReturned(r) ==
    /\ refund[r].pc = "gateway"
    /\ \E outcome \in RefundOutcomes(refund[r].options) :
          IF RefundFailed(outcome)
          THEN /\ refund' = [refund EXCEPT ![r].pc = "done",
                      ![r].resp = Response(500, "Failed to process refund", 0)]
               /\ UNCHANGED gwRefunded
          ELSE /\ refund' = [refund EXCEPT ![r].pc = "find", ![r].rf = outcome]
               /\ gwRefunded' = [gwRefunded EXCEPT ![refund[r].options.payment_id] =
                                    @ + outcome.amount]
    /\ UNCHANGED <<gwOrders, money, crud, calls, orders, payments, nextId, settle, gwFetches>>

\* findOne settles; the document is changed in memory and save() is sent
RefundFound(r) ==
    /\ refund[r].pc = "find"
    /\ LET found == {p \in payments : p.paymentId = refund[r].req.payment_id}
       IN IF found = {}
          THEN refund' = [refund EXCEPT ![r].pc = "done",
                     ![r].resp = Response(200, "", 0)]
          ELSE LET payment == CHOOSE p \in found : TRUE
               IN refund' = [refund EXCEPT ![r].pc = "save",
                     ![r].doc = RefundedDocument(payment, refund[r].rf, refund[r].req)]
    /\ UNCHANGED <<gwOrders, money, crud, calls, orders, payments, nextId, settle, gwFetches, gwRefunded>>

\* save() settles: validation of the modified paths, then the update of
\* those paths on the stored document
RefundSaved(r) ==
    /\ refund[r].pc = "save"
    /\ LET doc == refund[r].doc
           stored == {p \in payments : p.id = doc.id}
       IN IF ~ValidRefundedDocument(doc) \/ stored = {}
          THEN /\ refund' = [refund EXCEPT ![r].pc = "done",
                      ![r].resp = Response(500, "Failed to process refund", 0)]
               /\ UNCHANGED payments
          ELSE /\ payments' = (payments \ stored) \cup
                      {[p EXCEPT !.refundDetails = doc.refundDetails,
                                 !.status = doc.status] : p \in stored}
               /\ refund' = [refund EXCEPT ![r].pc = "done",
                      ![r].resp = Response(200, "", doc.id)]
    /\ UNCHANGED <<gwOrders, money, crud, calls, orders, nextId, settle, gwFetches, gwRefunded>>

-----------------------------------------------------------------------------
(* /api/orders *)

\* orderSchema validators that Order.create(req.body) can fail
ValidNewOrder(body) ==
    /\ ValidOrder([items |-> body.items, subtotal |-> body.total, total |-> body.total])
    /\ body.method \in OrderPaymentMethodEnum
    /\ body.status # "" => body.status \in OrderStatusEnum

\* the document Order.create(req.body) inserts under the given number
NewOrder(body, number) ==
    [id |-> nextId, orderNumber |-> number, items |-> body.items,
     subtotal |-> body.total, total |-> body.total, payMethod |-> body.method,
     payStatus |-> "Pending", paidAt |-> 0, transactionId |-> "",
     status |-> IF body.status # "" THEN body.status ELSE "Pending"]

\* POST /api/orders: the checks of the body, then Order.create validates
\* and enters the pre-save hook, which awaits countDocuments when the body
\* has no orderNumber
OrderCreateStart(c) ==
    /\ crud[c].pc = "idle"
    /\ c = calls + 1
    /\ calls' = calls + 1
    /\ \E body \in OrderBodies :
          LET arrived == [crud[c] EXCEPT !.op = "createOrder", !.body = body]
              Refuse(code, error) ==
                  crud' = [crud EXCEPT ![c] = [arrived EXCEPT !.pc = "done",
                                                  !.resp = Answer(code, error, 0, "")]]
          IN IF ~body.customerInfo \/ ~body.pricing
             THEN Refuse(400, "Missing required fields")
             ELSE IF Len(body.items) = 0
             THEN Refuse(400, "Invalid items")
             ELSE IF body.total <= 0
             THEN Refuse(400, "Invalid pricing")
             ELSE IF ~ValidNewOrder(body)
             THEN Refuse(500, "Something went wrong!")
             ELSE crud' = [crud EXCEPT ![c] = [arrived EXCEPT
                             !.pc = IF body.orderNumber = "" THEN "count" ELSE "insert"]]
    /\ UNCHANGED <<gwOrders, money, orders, payments, nextId, settle, refund, gwFetches, gwRefunded>>

\* countDocuments resolves; the hook sets orderNumber and the insert is sent
OrderCounted(c) ==
    /\ crud[c].op = "createOrder"
    /\ crud[c].pc = "count"
    /\ crud' = [crud EXCEPT ![c].pc = "insert", ![c].count = Cardinality(orders)]
    /\ UNCHANGED <<gwOrders, money, calls, orders, payments, nextId, settle, refund, gwFetches, gwRefunded>>

\* the number the insert of request c carries
NumberOf(call) ==
    IF call.body.orderNumber = "" THEN OrderNumber(call.count) ELSE call.body.orderNumber

\* the insert settles
OrderInserted(c) ==
    /\ crud[c].op = "createOrder"
    /\ crud[c].pc = "insert"
    /\ LET order == NewOrder(crud[c].body, NumberOf(crud[c]))
       IN IF OrderNumberTaken(order.orderNumber)
          THEN /\ crud' = [crud EXCEPT ![c].pc = "done",
                      ![c].resp = Answer(500, "Something went wrong!", 0, "")]
               /\ UNCHANGED <<orders, nextId>>
          ELSE /\ orders' = orders \cup {order}
               /\ nextId' = nextId + 1
               /\ crud' = [crud EXCEPT ![c].pc = "done",
                      ![c].resp = Answer(201, "", order.id, order.status)]
    /\ UNCHANGED <<gwOrders, money, calls, payments, settle, refund, gwFetches, gwRefunded>>

\* the validators that findByIdAndUpdate runs on the paths of the update
\* (runValidators: true)
ValidOrderUpdate(patch) ==
    /\ patch.hasTotal => patch.total >= 0
    /\ patch.status # "" => patch.status \in OrderStatusEnum

\* the document after the update has been applied
UpdatedOrder_Cancelling(order, patch) == [order EXCEPT !.status = "Cancelled"]
UpdatedOrder(order, patch) ==
    [order EXCEPT !.total = IF patch.hasTotal THEN patch.total ELSE @,
                  !.status = IF patch.status # "" THEN patch.status ELSE @]

\* findByIdAndUpdate(id, patch, {new: true, runValidators: true}) on the
\* Order collection, answered by request c
FindOrderAndUpdate(c, op, id, patch, status) ==
    LET arrived == [crud[c] EXCEPT !.op = op, !.pc = "done", !.id = id,
                                   !.patch = patch, !.status = status]
        found == {o \in orders : o.id = id}
    IN IF ~ValidOrderUpdate(patch)
       THEN /\ crud' = [crud EXCEPT ![c] = [arrived EXCEPT
                          !.resp = Answer(500, "Something went wrong!", 0, "")]]
            /\ UNCHANGED orders
       ELSE IF found = {}
       THEN /\ crud' = [crud EXCEPT ![c] = [arrived EXCEPT
                          !.resp = Answer(404, "Order not found", 0, "")]]
            /\ UNCHANGED orders
       ELSE /\ orders' = (orders \ found) \cup {UpdatedOrder(o, patch) : o \in found}
            /\ crud' = [crud EXCEPT ![c] = [arrived EXCEPT
                          !.resp = Answer(200, "", id,
                                 UpdatedOrder(CHOOSE o \in found : TRUE, patch).status)]]

\* PUT /api/orders/:id
OrderUpdate(c) ==
    /\ crud[c].pc = "idle"
    /\ c = calls + 1
    /\ calls' = calls + 1
    /\ \E id \in PathIds, patch \in OrderPatches : FindOrderAndUpdate(c, "updateOrder", id, patch, "")
    /\ UNCHANGED <<gwOrders, money, payments, nextId, settle, refund, gwFetches, gwRefunded>>

\* validStatuses.includes(status)
ValidStatus_Any(status) == TRUE
ValidStatus(status) == status \in OrderStatusEnum

\* PUT /api/orders/:id/status
OrderStatusUpdate(c) ==
    /\ crud[c].pc = "idle"
    /\ c = calls + 1
    /\ calls' = calls + 1
    /\ \E id \in PathIds, status \in OrderStatusInputs :
          IF ~ValidStatus(status)
          THEN /\ crud' = [crud EXCEPT ![c] = [crud[c] EXCEPT !.op = "updateOrderStatus",
                              !.pc = "done", !.id = id, !.status = status,
                              !.resp = Answer(400, "Invalid status", 0, "")]]
               /\ UNCHANGED orders
          ELSE FindOrderAndUpdate(c, "updateOrderStatus", id,
                                  Patch(FALSE, 0, status, FALSE, 0), status)
    /\ UNCHANGED <<gwOrders, money, payments, nextId, settle, refund, gwFetches, gwRefunded>>

\* DELETE /api/orders/:id up to the call of Payment.deleteOne
OrderDeleteStart(c) ==
    /\ crud[c].pc = "idle"
    /\ c = calls + 1
    /\ calls' = calls + 1
    /\ \E id \in PathIds :
          LET arrived == [crud[c] EXCEPT !.op = "deleteOrder", !.id = id]
              found == {o \in orders : o.id = id}
          IN IF found = {}
             THEN /\ crud' = [crud EXCEPT ![c] = [arrived EXCEPT !.pc = "done",
                                 !.resp = Answer(404, "Order not found", 0, "")]]
                  /\ UNCHANGED orders
             ELSE /\ orders' = orders \ found
                  /\ crud' = [crud EXCEPT ![c] = [arrived EXCEPT !.pc = "deletePayment"]]
    /\ UNCHANGED <<gwOrders, money, payments, nextId, settle, refund, gwFetches, gwRefunded>>

\* Payment.deleteOne({orderId: id}) settles: one of the Payments of the
\* Order, when it has any, is removed
OrderDeletePayment(c) ==
    /\ crud[c].op = "deleteOrder"
    /\ crud[c].pc = "deletePayment"
    /\ LET linked == {p \in payments : p.orderId = crud[c].id}
       IN IF linked = {}
          THEN UNCHANGED payments
          ELSE \E p \in linked : payments' = payments \ {p}
    /\ crud' = [crud EXCEPT ![c].pc = "done", ![c].resp = Answer(200, "", 0, "")]
    /\ UNCHANGED <<gwOrders, money, calls, orders, nextId, settle, refund, gwFetches, gwRefunded>>

-----------------------------------------------------------------------------
(* /api/payments *)

\* req.body of PUT /api/payments/:id sent by request c
PaymentPatches(c) ==
    {Patch(FALSE, 0, "", TRUE, Now(c)), Patch(FALSE, 0, "", TRUE, 0),
     Patch(FALSE, 0, "Refunded", FALSE, 0), Patch(FALSE, 0, "Archived", FALSE, 0)}

\* req.body.status of PUT /api/payments/:id/status
PaymentStatusInputs == PaymentStatusEnum \cup {"Archived"}

\* the validators that findByIdAndUpdate runs on the paths of the update
ValidPaymentUpdate_Any(patch) == TRUE
ValidPaymentUpdate(patch) ==
    patch.status # "" => patch.status \in PaymentStatusEnum

\* the document after the update has been applied
UpdatedPayment_Refunding(payment, patch) == [payment EXCEPT !.status = "Refunded"]
UpdatedPayment(payment, patch) ==
    [payment EXCEPT !.status = IF patch.status # "" THEN patch.status ELSE @,
                    !.timestamps.completedAt =
                        IF patch.hasCompletedAt THEN patch.completedAt ELSE @]

\* PUT /api/payments/:id
PaymentUpdate(c) ==
    /\ crud[c].pc = "idle"
    /\ c = calls + 1
    /\ calls' = calls + 1
    /\ \E id \in PathIds, patch \in PaymentPatches(c) :
          LET arrived == [crud[c] EXCEPT !.op = "updatePayment", !.pc = "done", !.id = id,
                                         !.patch = patch]
              found == {p \in payments : p.id = id}
          IN IF ~ValidPaymentUpdate(patch)
             THEN /\ crud' = [crud EXCEPT ![c] = [arrived EXCEPT
                                !.resp = Answer(500, "Something went wrong!", 0, "")]]
                  /\ UNCHANGED payments
             ELSE IF found = {}
             THEN /\ crud' = [crud EXCEPT ![c] = [arrived EXCEPT
                                !.resp = Answer(404, "Payment not found", 0, "")]]
                  /\ UNCHANGED payments
             ELSE /\ payments' = (payments \ found)
                                     \cup {UpdatedPayment(q, patch) : q \in found}
                  /\ crud' = [crud EXCEPT ![c] = [arrived EXCEPT
                                !.resp = Answer(200, "", id,
                                    UpdatedPayment(CHOOSE q \in found : TRUE, patch).status)]]
    /\ UNCHANGED <<gwOrders, money, orders, nextId, settle, refund, gwFetches, gwRefunded>>

\* validPaymentMethods
PaymentMethodEnum ==
    {"Credit Card", "Debit Card", "PayPal", "Bank Transfer", "Cash on Delivery",
     "Digital Wallet", "Razorpay"}

\* paymentSchema validators that Payment.create(req.body) can fail
ValidNewPayment(body) ==
    /\ body.orderNumber # ""
    /\ body.subtotal >= 0
    /\ body.status # "" => body.status \in PaymentStatusEnum

\* "PAY-" and the padded ordinal, as the pre-save hook builds it
PaymentNumber(count) == "PAY-" \o PadStart(ToString(count + 1), OrderNumberWidth, "0")

\* the paymentId the insert of request c carries
PaymentIdOf(call) ==
    IF call.pay.paymentId = "" THEN PaymentNumber(call.count) ELSE call.pay.paymentId

\* the document Payment.create(req.body) inserts for request c
NewPayment(call, now) ==
    [id |-> nextId, paymentId |-> PaymentIdOf(call), orderNumber |-> call.pay.orderNumber,
     orderId |-> call.pay.orderId, razorpayPaymentId |-> "",
     subtotal |-> call.pay.subtotal, total |-> call.pay.subtotal,
     status |-> IF call.pay.status # "" THEN call.pay.status ELSE "Pending",
     timestamps |-> [initiatedAt |-> now, processedAt |-> 0, completedAt |-> 0,
                     failedAt |-> 0],
     refundDetails |-> NoRefundDetails]

\* POST /api/payments: the checks of the body and Order.findById, then
\* Payment.create validates and enters the pre-save hook, which awaits
\* countDocuments when the body has no paymentId
PaymentCreateStart(c) ==
    /\ crud[c].pc = "idle"
    /\ c = calls + 1
    /\ calls' = calls + 1
    /\ \E body \in PaymentBodies :
          LET arrived == [crud[c] EXCEPT !.op = "createPayment", !.pay = body]
              Refuse(code, error) ==
                  crud' = [crud EXCEPT ![c] = [arrived EXCEPT !.pc = "done",
                                                  !.resp = Answer(code, error, 0, "")]]
          IN IF body.orderId = 0
             THEN Refuse(400, "Missing required fields")
             ELSE IF body.method \notin PaymentMethodEnum
             THEN Refuse(400, "Invalid payment method")
             ELSE IF body.subtotal <= 0
             THEN Refuse(400, "Invalid amount")
             ELSE IF ~\E o \in orders : o.id = body.orderId
             THEN Refuse(404, "Order not found")
             ELSE IF ~ValidNewPayment(body)
             THEN Refuse(500, "Something went wrong!")
             ELSE crud' = [crud EXCEPT ![c] = [arrived EXCEPT
                             !.pc = IF body.paymentId = "" THEN "count" ELSE "insert"]]
    /\ UNCHANGED <<gwOrders, money, orders, payments, nextId, settle, refund, gwFetches, gwRefunded>>

\* countDocuments resolves; the hook sets paymentId and the insert is sent
PaymentCounted(c) ==
    /\ crud[c].op = "createPayment"
    /\ crud[c].pc = "count"
    /\ crud' = [crud EXCEPT ![c].pc = "insert", ![c].count = Cardinality(payments)]
    /\ UNCHANGED <<gwOrders, money, calls, orders, payments, nextId, settle, refund, gwFetches, gwRefunded>>

\* the insert settles
PaymentInserted(c) ==
    /\ crud[c].op = "createPayment"
    /\ crud[c].pc = "insert"
    /\ LET payment == NewPayment(crud[c], Now(c))
       IN IF PaymentIdTaken(payment.paymentId)
          THEN /\ crud' = [crud EXCEPT ![c].pc = "done",
                      ![c].resp = Answer(500, "Something went wrong!", 0, "")]
               /\ UNCHANGED <<payments, nextId>>
          ELSE /\ payments' = payments \cup {payment}
               /\ nextId' = nextId + 1
               /\ crud' = [crud EXCEPT ![c].pc = "done",
                      ![c].resp = Answer(201, "", payment.id, payment.status)]
    /\ UNCHANGED <<gwOrders, money, calls, orders, settle, refund, gwFetches, gwRefunded>>

\* PUT /api/payments/:id/status.  The update object passed to
\* findByIdAndUpdate reads payment.timestamps, and payment is the const that
\* the result of that very call initializes: building the argument throws a
\* ReferenceError before any query is sent, and the catch answers 500.
PaymentStatusUpdate(c) ==
    /\ crud[c].pc = "idle"
    /\ c = calls + 1
    /\ calls' = calls + 1
    /\ \E id \in PathIds, status \in PaymentStatusInputs :
          LET arrived == [crud[c] EXCEPT !.op = "updatePaymentStatus", !.pc = "done",
                                         !.id = id, !.status = status]
          IN IF status \notin PaymentStatusEnum
             THEN crud' = [crud EXCEPT ![c] = [arrived EXCEPT
                             !.resp = Answer(400, "Invalid status", 0, "")]]
             ELSE crud' = [crud EXCEPT ![c] = [arrived EXCEPT
                             !.resp = Answer(500, "Something went wrong!", 0, "")]]
    /\ UNCHANGED <<gwOrders, money, orders, payments, nextId, settle, refund, gwFetches, gwRefunded>>

-----------------------------------------------------------------------------
(* POST /create-order *)

\* supportedCurrencies
SupportedCurrencies_Two == {"INR", "USD"}
SupportedCurrencies == {"INR"}

\* options as passed to razorpay.orders.create by request c
IntentOptions(c, req, paise) ==
    [call |-> c, amount |-> paise,
     currency |-> IF req.currency = "" THEN "INR" ELSE req.currency,
     receipt |-> req.receipt]

\* entry up to the call of razorpay.orders.create
IntentStart(c) ==
    /\ crud[c].pc = "idle"
    /\ c = calls + 1
    /\ calls' = calls + 1
    /\ \E req \in IntentBodies :
          LET arrived == [crud[c] EXCEPT !.op = "createIntent", !.intent = req]
              currency == IF req.currency = "" THEN "INR" ELSE req.currency
              Refuse(error) ==
                  /\ crud' = [crud EXCEPT ![c] = [arrived EXCEPT !.pc = "done",
                                                     !.resp = Answer(400, error, 0, "")]]
                  /\ UNCHANGED gwOrders
          IN IF req.amount = 0 \/ req.amount <= 0
             THEN Refuse("Invalid amount")
             ELSE IF req.receipt = ""
             THEN Refuse("Missing receipt")
             ELSE IF currency \notin SupportedCurrencies
             THEN Refuse("Unsupported currency")
             ELSE \E paise \in RoundedPaise(req.amount) :
                     /\ gwOrders' = Append(gwOrders, IntentOptions(c, req, paise))
                     /\ crud' = [crud EXCEPT ![c] = [arrived EXCEPT !.pc = "gateway"]]
    /\ UNCHANGED <<money, orders, payments, nextId, settle, refund, gwFetches, gwRefunded>>

\* razorpay.orders.create settles: the gateway order, or a rejection
IntentGatewayReturned(c) ==
    /\ crud[c].op = "createIntent"
    /\ crud[c].pc = "gateway"
    /\ \E ok \in BOOLEAN :
          crud' = [crud EXCEPT ![c].pc = "done",
                     ![c].resp = IF ok THEN Answer(200, "", 0, "created")
                                 ELSE Answer(500, "Failed to create Razorpay order", 0, "")]
    /\ UNCHANGED <<gwOrders, money, calls, orders, payments, nextId, settle, refund,
                   gwFetches, gwRefunded>>

-----------------------------------------------------------------------------
(* Conversion of an amount at the gateway boundary *)

\* Math.round(amount * 100)
MoneyToPaise ==
    /\ money.pc = "major"
    /\ \E paise \in RoundedPaise(money.amount) :
          money' = [money EXCEPT !.pc = "minor", !.paise = paise]
    /\ UNCHANGED <<gwOrders, crud, calls, orders, payments, nextId, settle, refund,
                   gwFetches, gwRefunded>>

\* amount / 100
MoneyFromPaise ==
    /\ money.pc = "minor"
    /\ money' = [money EXCEPT !.pc = "back", !.back = FromPaise(money.paise)]
    /\ UNCHANGED <<gwOrders, crud, calls, orders, payments, nextId, settle, refund,
                   gwFetches, gwRefunded>>

-----------------------------------------------------------------------------

Next ==
    \/ \E s \in SettleIds : SettleStart(s)
    \/ \E s \in SettleIds : SettleFetched(s)
    \/ \E s \in SettleIds : SettleOrderCounted(s)
    \/ \E s \in SettleIds : SettleOrderInserted(s)
    \/ \E s \in SettleIds : SettlePaymentInserted(s)
    \/ \E r \in RefundIds : RefundStart(r)
    \/ \E r \in RefundIds : RefundGatewayReturned(r)
    \/ \E r \in RefundIds : RefundFound(r)
    \/ \E r \in RefundIds : RefundSaved(r)

Spec == Init /\ [][Next]_vars

\* the order API next to settle: every order entry point
LedgerNext ==
    \/ \E s \in SettleIds : SettleStart(s)
    \/ \E s \in SettleIds : SettleFetched(s)
    \/ \E s \in SettleIds : SettleOrderCounted(s)
    \/ \E s \in SettleIds : SettleOrderInserted(s)
    \/ \E s \in SettleIds : SettlePaymentInserted(s)
    \/ \E c \in SettleIds : OrderCreateStart(c)
    \/ \E c \in SettleIds : OrderCounted(c)
    \/ \E c \in SettleIds : OrderInserted(c)
    \/ \E c \in SettleIds : OrderUpdate(c)
    \/ \E c \in SettleIds : OrderStatusUpdate(c)
    \/ \E c \in SettleIds : OrderDeleteStart(c)
    \/ \E c \in SettleIds : OrderDeletePayment(c)

LedgerSpec == Init /\ [][LedgerNext]_vars

\* the payment API next to settle and refund: everything that writes a Payment
PaymentNext ==
    \/ \E s \in SettleIds : SettleStart(s)
    \/ \E s \in SettleIds : SettleFetched(s)
    \/ \E s \in SettleIds : SettleOrderCounted(s)
    \/ \E s \in SettleIds : SettleOrderInserted(s)
    \/ \E s \in SettleIds : SettlePaymentInserted(s)
    \/ \E r \in RefundIds : RefundStart(r)
    \/ \E r \in RefundIds : RefundGatewayReturned(r)
    \/ \E r \in RefundIds : RefundFound(r)
    \/ \E r \in RefundIds : RefundSaved(r)
    \/ \E c \in SettleIds : PaymentUpdate(c)
    \/ \E c \in SettleIds : PaymentStatusUpdate(c)
    \/ \E c \in SettleIds : PaymentCreateStart(c)
    \/ \E c \in SettleIds : PaymentCounted(c)
    \/ \E c \in SettleIds : PaymentInserted(c)

PaymentSpec == Init /\ [][PaymentNext]_vars

\* every operation that writes a status of an Order or of a Payment
StoreNext ==
    \/ \E s \in SettleIds : SettleStart(s)
    \/ \E s \in SettleIds : SettleFetched(s)
    \/ \E s \in SettleIds : SettleOrderCounted(s)
    \/ \E s \in SettleIds : SettleOrderInserted(s)
    \/ \E s \in SettleIds : SettlePaymentInserted(s)
    \/ \E r \in RefundIds : RefundStart(r)
    \/ \E r \in RefundIds : RefundGatewayReturned(r)
    \/ \E r \in RefundIds : RefundFound(r)
    \/ \E r \in RefundIds : RefundSaved(r)
    \/ \E c \in SettleIds : OrderCreateStart(c)
    \/ \E c \in SettleIds : OrderCounted(c)
    \/ \E c \in SettleIds : OrderInserted(c)
    \/ \E c \in SettleIds : OrderUpdate(c)
    \/ \E c \in SettleIds : OrderStatusUpdate(c)
    \/ \E c \in SettleIds : PaymentCreateStart(c)
    \/ \E c \in SettleIds : PaymentCounted(c)
    \/ \E c \in SettleIds : PaymentInserted(c)
    \/ \E c \in SettleIds : PaymentUpdate(c)
    \/ \E c \in SettleIds : PaymentStatusUpdate(c)

StoreSpec == Init /\ [][StoreNext]_vars

\* create-order alone
IntentNext ==
    \/ \E c \in SettleIds : IntentStart(c)
    \/ \E c \in SettleIds : IntentGatewayReturned(c)

IntentSpec == Init /\ [][IntentNext]_vars

\* the conversions alone, of every amount of the range
MoneyNext ==
    \/ MoneyToPaise
    \/ MoneyFromPaise

MoneySpec == MoneyInit /\ [][MoneyNext]_vars

\* what creates a Payment and what deletes an Order, over longer runs
CascadeNext ==
    \/ \E s \in SettleIds : SettleStart(s)
    \/ \E s \in SettleIds : SettleFetched(s)
    \/ \E s \in SettleIds : SettleOrderCounted(s)
    \/ \E s \in SettleIds : SettleOrderInserted(s)
    \/ \E s \in SettleIds : SettlePaymentInserted(s)
    \/ \E c \in CrudIds : PaymentCreateStart(c)
    \/ \E c \in CrudIds : PaymentCounted(c)
    \/ \E c \in CrudIds : PaymentInserted(c)
    \/ \E c \in CrudIds : OrderDeleteStart(c)
    \/ \E c \in CrudIds : OrderDeletePayment(c)

CascadeSpec == Init /\ [][CascadeNext]_vars

\* the order API alone, over longer runs
OrderNext ==
    \/ \E c \in CrudIds : OrderCreateStart(c)
    \/ \E c \in CrudIds : OrderCounted(c)
    \/ \E c \in CrudIds : OrderInserted(c)
    \/ \E c \in CrudIds : OrderUpdate(c)
    \/ \E c \in CrudIds : OrderStatusUpdate(c)
    \/ \E c \in CrudIds : OrderDeleteStart(c)
    \/ \E c \in CrudIds : OrderDeletePayment(c)

OrderSpec == Init /\ [][OrderNext]_vars

-----------------------------------------------------------------------------
(* Vocabulary of the properties *)

OrdersFor(pid) == {o \in orders : o.transactionId = pid}
PaymentsFor(pid) == {p \in payments : p.paymentId = pid}

SettleQuiescent == \A s \in SettleIds : settle[s].pc \in {"idle", "done"}

\* the request passed the field check and the signature check
Verified(req) == ~MissingVerificationData(req) /\ req.sig = ExpectedSignature(req)

\* the call got a payment from the gateway and has finished
SettledCall(s) == settle[s].pc = "done" /\ settle[s].gw.ok

-----------------------------------------------------------------------------
(* Settlement *)

\* C1 (as claimed): for every gateway payment id there is never more than
\* one Order and never more than one Payment, however many settle calls
\* carried it and however they interleaved.
C1_NoDuplicateSettlement ==
    \A pid \in KnownPayments :
        /\ Cardinality(OrdersFor(pid)) <= 1
        /\ Cardinality(PaymentsFor(pid)) <= 1

\* C2 (as claimed): when no settle call is in progress, every gateway
\* payment id has one Order and one Payment, or neither.
C2_PairOrNeither ==
    SettleQuiescent =>
        \A pid \in KnownPayments :
            \/ Cardinality(OrdersFor(pid)) = 1 /\ Cardinality(PaymentsFor(pid)) = 1
            \/ OrdersFor(pid) = {} /\ PaymentsFor(pid) = {}

\* C3 (as claimed): a settle call whose Payment insert meets an existing
\* Payment for its gateway payment id answers with success and that Payment.
C3_ResubmissionSucceeds ==
    [][\A s \in SettleIds :
          (settle[s].pc = "paymentInsert" /\ settle'[s].pc = "done"
              /\ PaymentsFor(settle[s].req.pid) # {})
          => /\ settle'[s].resp.code = 200
             /\ \E p \in PaymentsFor(settle[s].req.pid) : settle'[s].resp.payment = p.id]_vars

\* C4 (as claimed): a finished settle call that was verified and got the
\* payment from the gateway has created one Order and one Payment, and the
\* Payment's orderId is the id of that Order.
C4_OneOrderOnePaymentLinked ==
    \A s \in SettleIds :
        SettledCall(s) =>
            /\ settle[s].resp.code = 200
            /\ \E o \in orders : o.id = settle[s].order
            /\ \E p \in payments :
                  p.id = settle[s].resp.payment /\ p.orderId = settle[s].order

\* C5: a call with all three fields whose signature is not the HMAC of
\* "<order id>|<payment id>" ends at once with the client error "Invalid
\* payment signature", issues no gateway fetch and leaves both ledgers as
\* they were.
C5_InvalidSignatureRejected ==
    [][\A s \in SettleIds :
          (settle[s].pc = "idle" /\ settle'[s].pc # "idle"
              /\ ~MissingVerificationData(settle'[s].req)
              /\ settle'[s].req.sig # ExpectedSignature(settle'[s].req))
          => /\ settle'[s].pc = "done"
             /\ settle'[s].resp = Response(400, "Invalid payment signature", 0)
             /\ UNCHANGED <<orders, payments, gwFetches>>]_vars

C5_Witness ==
    \E s \in SettleIds :
        /\ settle[s].pc = "done"
        /\ ~MissingVerificationData(settle[s].req)
        /\ settle[s].req.sig # ExpectedSignature(settle[s].req)
        /\ settle[s].resp.code = 400
        /\ orders # {}

\* the call has failed before its write phase: a field is missing, or the
\* gateway fetch has settled with a failure
FailedEarly(call) ==
    \/ call.pc # "idle" /\ MissingVerificationData(call.req)
    \/ call.pc \notin {"idle", "fetch"} /\ Verified(call.req) /\ ~call.gw.ok

\* C6: every step of a settle call that is rejected for a missing field or
\* whose gateway fetch failed leaves the Order and Payment ledgers unchanged
\* and ends the call with an error (400 for the missing field, 500 for the
\* failed fetch); such a call never inserts an Order.
C6_EarlyFailureWritesNothing ==
    /\ [][\A s \in SettleIds :
            (settle'[s] # settle[s] /\ FailedEarly(settle'[s]))
            => /\ UNCHANGED <<orders, payments>>
               /\ settle'[s].pc = "done"
               /\ settle'[s].resp.code =
                     IF MissingVerificationData(settle'[s].req) THEN 400 ELSE 500
               /\ settle'[s].resp.payment = 0]_vars
    /\ [](\A s \in SettleIds : FailedEarly(settle[s]) => settle[s].order = 0)

C6_Witness ==
    /\ \E s \in SettleIds :
          /\ settle[s].pc = "done" /\ Verified(settle[s].req) /\ ~settle[s].gw.ok
          /\ settle[s].resp.code = 500
    /\ \E s \in SettleIds :
          /\ settle[s].pc = "done" /\ MissingVerificationData(settle[s].req)
          /\ settle[s].resp.code = 400

-----------------------------------------------------------------------------
(* Refunds *)

\* the gateway has confirmed the refund that call r asked for
RefundConfirmed(r) == refund[r].rf.ok /\ refund[r].rf.status = "processed"

\* C7 (as claimed): once a refund call has ended after the gateway confirmed
\* the refund and a Payment was found, that Payment carries the refund id,
\* the refunded amount in major units, the refund status, the reason and
\* refundedAt, and its status is Refunded when the refunded amount equals
\* its total and Partially Refunded when it is smaller.
C7_ConfirmedRefundRecorded ==
    \A r \in RefundIds :
        (refund[r].pc = "done" /\ RefundConfirmed(r))
        => \A p \in PaymentsFor(refund[r].req.payment_id) :
              p.id = refund[r].doc.id
              => /\ p.refundDetails.refundId = refund[r].rf.id
                 /\ p.refundDetails.refundAmount * PaisePerRupee = refund[r].rf.amount * Milli
                 /\ p.refundDetails.refundedAt # ""
                 /\ p.refundDetails.refundReason # ""
                 /\ refund[r].rf.amount * Milli = p.total * PaisePerRupee
                       => p.status = "Refunded"
                 /\ refund[r].rf.amount * Milli < p.total * PaisePerRupee
                       => p.status = "Partially Refunded"

\* C8 (as claimed): a refund call that found no Payment for its payment id
\* has not had a refund issued by the gateway and does not answer success.
C8_RefundWithoutPaymentFails ==
    \A r \in RefundIds :
        (refund[r].pc = "done" /\ refund[r].req.payment_id # "" /\ refund[r].doc.id = 0)
        => ~refund[r].rf.ok /\ refund[r].resp.code # 200

\* the gateway call of the refund has settled with a failure
FailedAtGateway(call) ==
    call.pc \notin {"idle", "gateway"} /\ call.req.payment_id # "" /\ ~call.rf.ok

\* C9: when the gateway refund call fails, the refund call ends with the
\* error 500 and no Payment is changed; and a step of a refund call changes
\* the Payment ledger only when the gateway has answered that call with a
\* refund.
C9_GatewayFailureLeavesPayment ==
    [][\A r \in RefundIds :
          /\ (refund'[r] # refund[r] /\ FailedAtGateway(refund'[r]))
             => /\ refund'[r].pc = "done"
                /\ refund'[r].resp = Response(500, "Failed to process refund", 0)
                /\ UNCHANGED <<payments, gwRefunded>>
          /\ (refund'[r] # refund[r] /\ payments' # payments) => refund[r].rf.ok]_vars

C9_Witness ==
    \E r \in RefundIds :
        /\ refund[r].pc = "done"
        /\ FailedAtGateway(refund[r])
        /\ PaymentsFor(refund[r].req.payment_id) # {}

\* C10 (as claimed): the refund request sent to the gateway carries an
\* amount exactly when the caller gave one, and then it is the caller's
\* amount in minor units.
C10_AmountSentIffProvided ==
    \A r \in RefundIds :
        (refund[r].pc # "idle" /\ refund[r].req.payment_id # "")
        => /\ refund[r].options.hasAmount <=> refund[r].req.hasAmount
           /\ refund[r].options.hasAmount
                 => refund[r].options.amount * Milli = refund[r].req.amount * PaisePerRupee

-----------------------------------------------------------------------------
(* The records that settle writes *)

\* C11: the Payment a settle call inserts has status Completed when the
\* fetched gateway payment is captured and Processing when it is not; its
\* initiatedAt and processedAt are set in both cases and its completedAt is
\* set exactly when the gateway payment is captured.
C11_SettledStatusAndTimestamps ==
    [][\A s \in SettleIds :
          (settle[s].pc = "paymentInsert" /\ settle'[s].resp.code = 200)
          => \E p \in payments' \ payments :
                /\ p.id = settle'[s].resp.payment
                /\ p.status = IF settle[s].gw.status = "captured"
                              THEN "Completed" ELSE "Processing"
                /\ p.timestamps.initiatedAt # 0
                /\ p.timestamps.processedAt # 0
                /\ p.timestamps.completedAt # 0 <=> settle[s].gw.status = "captured"]_vars

C11_Witness ==
    /\ \E p \in payments : p.status = "Processing" /\ p.timestamps.completedAt = 0
    /\ \E s \in SettleIds : settle[s].resp.code = 200 /\ settle[s].gw.status = "authorized"

\* C12 (as claimed): once the gateway fetch of a verified call has
\* succeeded, the call goes on to persist its Order whatever orderData holds.
C12_NoDraftIsRejected ==
    [][\A s \in SettleIds :
          (settle[s].pc = "fetch" /\ settle'[s].gw.ok) => settle'[s].pc = "orderCount"]_vars

\* C16 (as claimed): the payment number of a Payment is not the gateway's
\* payment id recorded in its method details.
C16_PaymentNumberIsNotGatewayId ==
    \A p \in payments : p.paymentId # p.razorpayPaymentId

-----------------------------------------------------------------------------
(* The order ledger *)

\* C13 (as claimed): every persisted Order has a total greater than zero,
\* whether it was written by POST /api/orders, by settle or by
\* PUT /api/orders/:id.
C13_TotalIsPositive ==
    \A o \in orders : o.total > 0

\* C14: no two persisted Orders have the same order number, whatever
\* creations (generic or by settle) and deletions have run and however
\* their steps interleaved.
C14_OrderNumbersAreUnique ==
    \A o1 \in orders, o2 \in orders : o1.id # o2.id => o1.orderNumber # o2.orderNumber

\* a creation has been refused because its number was held by an Order that
\* another creation inserted in the meantime
C14_Witness ==
    /\ orders # {}
    /\ \E c \in CrudIds :
          /\ crud[c].op = "createOrder" /\ crud[c].resp.code = 500
          /\ ValidNewOrder(crud[c].body)
          /\ \E o \in orders : o.orderNumber = NumberOf(crud[c]) /\ o.payMethod = "Razorpay"

\* a creation whose number the pre-save hook has generated and whose insert
\* has succeeded
Issued(call) ==
    /\ call.op = "createOrder" /\ call.pc = "done" /\ call.resp.code = 201
    /\ call.body.orderNumber = ""

\* C15 (as claimed): the number that a creation gives its new Order is
\* strictly greater than every number issued before, the numbers of Orders
\* deleted since included; no number is issued twice.
C15_OrderNumbersIncrease ==
    [][\A c \in CrudIds :
          (crud[c].pc = "insert" /\ Issued(crud'[c]))
          => \A d \in CrudIds : Issued(crud[d]) => crud[c].count > crud[d].count]_vars

TerminalOrderStatuses == {"Delivered", "Cancelled", "Returned"}

\* C18 (as claimed): an Order enters Returned only from Delivered and
\* Cancelled only from a status that is not terminal.
C18_OnlyLegalTransitions ==
    [][\A o \in orders, u \in orders' :
          (u.id = o.id /\ u.status # o.status)
          => /\ u.status = "Returned" => o.status = "Delivered"
             /\ u.status = "Cancelled" => o.status \notin TerminalOrderStatuses]_vars

\* C18 (amended): the status of an Order changes only by a successful
\* update request for that Order (PUT /:id/status or PUT /:id) and becomes
\* the enumerated status that the request names; the status it had does not
\* matter.
C18_StatusChangesAsRequested ==
    [][\A o \in orders, u \in orders' :
          (u.id = o.id /\ u.status # o.status)
          => \E c \in CrudIds :
                /\ crud[c].pc = "idle" /\ crud'[c].pc = "done"
                /\ crud'[c].op \in {"updateOrderStatus", "updateOrder"}
                /\ crud'[c].id = o.id
                /\ crud'[c].resp.code = 200
                /\ crud'[c].patch.status = u.status
                /\ u.status \in OrderStatusEnum]_vars

\* an Order is Returned although no request has made it Delivered
C18_Witness ==
    /\ \E o \in orders : o.status = "Returned"
    /\ \A c \in CrudIds : crud[c].patch.status # "Delivered"

-----------------------------------------------------------------------------
(* Payment status and timestamps *)

\* C19 (as claimed): PUT /api/payments/:id/status for a stored Payment and
\* an enumerated status succeeds, stores the new status and returns the
\* updated Payment; entering Completed sets processedAt and completedAt,
\* entering Failed sets failedAt.
C19_PaymentStatusUpdate ==
    [][\A c \in CrudIds :
          (/\ crud[c].pc = "idle" /\ crud'[c].op = "updatePaymentStatus"
           /\ crud'[c].status \in PaymentStatusEnum
           /\ \E p \in payments : p.id = crud'[c].id)
          => /\ crud'[c].resp = Answer(200, "", crud'[c].id, crud'[c].status)
             /\ \E q \in payments' :
                   /\ q.id = crud'[c].id
                   /\ q.status = crud'[c].status
                   /\ q.status = "Completed" =>
                         q.timestamps.processedAt # 0 /\ q.timestamps.completedAt # 0
                   /\ q.status = "Failed" => q.timestamps.failedAt # 0]_vars

\* C20 (as claimed): once processedAt, completedAt or failedAt of a Payment
\* has a value, no later operation changes it.
C20_TimestampsSetOnce ==
    [][\A p \in payments, q \in payments' :
          q.id = p.id
          => /\ p.timestamps.processedAt # 0 =>
                   q.timestamps.processedAt = p.timestamps.processedAt
             /\ p.timestamps.completedAt # 0 =>
                   q.timestamps.completedAt = p.timestamps.completedAt
             /\ p.timestamps.failedAt # 0 =>
                   q.timestamps.failedAt = p.timestamps.failedAt]_vars

-----------------------------------------------------------------------------
(* Refunded statuses *)

RefundedStatuses == {"Refunded", "Partially Refunded"}

\* the Payments that have entered a refunded status in this step
EnteredRefunded ==
    {q \in payments' : /\ q.status \in RefundedStatuses
                       /\ ~\E p \in payments : p.id = q.id /\ p.status = q.status}

\* request r is a refund whose save of Payment q settles in this step
SavedByRefund(r, q) ==
    /\ refund[r].pc = "save" /\ refund'[r].pc = "done"
    /\ refund[r].rf.ok
    /\ refund[r].doc.id = q.id /\ refund[r].doc.status = q.status

\* C21 (as claimed): a Payment enters Refunded or Partially Refunded only by
\* the save of a refund that the gateway has confirmed, and only from
\* Completed; status update, generic update and generic creation never
\* store either status.
C21_RefundedOnlyByRefund ==
    [][\A q \in EnteredRefunded :
          /\ \E r \in RefundIds : SavedByRefund(r, q)
          /\ \E p \in payments : p.id = q.id /\ p.status = "Completed"]_vars

\* C21 (amended): a Payment enters Refunded or Partially Refunded only by
\* the save of a confirmed refund, by a successful PUT /api/payments/:id
\* that names the status or by a POST /api/payments that names it; the
\* status it had before is not checked.
C21_RefundedAsRequested ==
    [][\A q \in EnteredRefunded :
          \/ \E r \in RefundIds : SavedByRefund(r, q)
          \/ \E c \in CrudIds :
                /\ crud[c].pc = "idle" /\ crud'[c].op = "updatePayment"
                /\ crud'[c].id = q.id /\ crud'[c].patch.status = q.status
                /\ crud'[c].resp.code = 200
          \/ \E c \in CrudIds :
                /\ crud[c].op = "createPayment" /\ crud[c].pc = "insert"
                /\ crud[c].pay.status = q.status
                /\ crud'[c].resp = Answer(201, "", q.id, q.status)]_vars

\* a Payment is Refunded although no refund has ever been requested
C21_Witness ==
    /\ \E p \in payments : p.status = "Refunded" /\ p.timestamps.processedAt # 0
    /\ \A r \in RefundIds : refund[r].pc = "idle"

-----------------------------------------------------------------------------
(* Deletion of an Order *)

\* C22 (as claimed): when DELETE /api/orders/:id has succeeded, no Payment
\* refers to the deleted Order any more, whatever Payments settle and
\* POST /api/payments had created for it.
C22_DeleteCascades ==
    [][\A c \in CrudIds :
          (/\ crud[c].op = "deleteOrder" /\ crud[c].pc = "deletePayment"
           /\ crud'[c].resp.code = 200)
          => ~\E p \in payments' : p.orderId = crud[c].id]_vars

-----------------------------------------------------------------------------
(* Order of the two writes of settle *)

\* C23: a settle call inserts its Payment only after its own Order has been
\* persisted, however the calls interleave; a call whose Order insert fails
\* answers an error at once and no Payment insert is attempted.
C23_OrderBeforePayment ==
    [][/\ \A q \in payments' :
             (~\E p \in payments : p.id = q.id)
             => \E s \in SettleIds :
                   /\ settle[s].pc = "paymentInsert"
                   /\ settle'[s].resp = Response(200, "", q.id)
                   /\ \E o \in orders : o.id = settle[s].order /\ o.id < q.id
       /\ \A s \in SettleIds :
             (settle[s].pc = "orderInsert" /\ settle'[s] # settle[s] /\ orders' = orders)
             => /\ settle'[s].pc = "done"
                /\ settle'[s].resp.code = 500
                /\ settle'[s].order = 0
                /\ payments' = payments]_vars

\* one call has stored its Order and its Payment, the Order insert of
\* another has failed and that call has stored nothing
C23_Witness ==
    \E s \in SettleIds, t \in SettleIds :
       /\ settle[s].resp.code = 200
       /\ \E o \in orders : o.id = settle[s].order
       /\ settle[t].pc = "done" /\ settle[t].gw.ok /\ settle[t].resp.code = 500
       /\ ValidOrder(OrderPayload(settle[t].req, settle[t].draft))
       /\ settle[t].order = 0
       /\ Cardinality(payments) = 1

-----------------------------------------------------------------------------
(* Create-order and the conversion of amounts *)

\* the calls of razorpay.orders.create that request c has issued
IntentCalls(c) == {i \in DOMAIN gwOrders : gwOrders[i].call = c}

\* C24: POST /create-order answers 400 and does not call the gateway when
\* the amount is missing or not greater than 0, the receipt is missing or the
\* currency is not INR; otherwise it calls razorpay.orders.create exactly
\* once, with the amount as the nearest whole number of paise.
C24_IntentValidated ==
    /\ [][\A c \in CrudIds :
             (crud[c].pc = "idle" /\ crud'[c].op = "createIntent")
             => LET req == crud'[c].intent
                IN IF req.amount <= 0 \/ req.receipt = "" \/ req.currency \notin {"", "INR"}
                   THEN /\ crud'[c].pc = "done" /\ crud'[c].resp.code = 400
                        /\ gwOrders' = gwOrders
                   ELSE /\ Len(gwOrders') = Len(gwOrders) + 1
                        /\ LET sent == gwOrders'[Len(gwOrders')].amount
                           IN /\ sent \in Nat
                              /\ gwOrders' = Append(gwOrders,
                                     [call |-> c, amount |-> sent, currency |-> "INR",
                                      receipt |-> req.receipt])
                              /\ 2 * (sent * Milli - req.amount * PaisePerRupee) <= Milli
                              /\ 2 * (req.amount * PaisePerRupee - sent * Milli) <= Milli]_vars
    /\ [](\A c \in CrudIds :
             crud[c].op = "createIntent"
             => Cardinality(IntentCalls(c)) = IF crud[c].resp.code = 400 THEN 0 ELSE 1)

\* one request is refused for its currency, another sends 1.15 as 115 paise
C24_Witness ==
    \E c \in CrudIds, d \in CrudIds :
       /\ crud[c].op = "createIntent" /\ crud[c].intent.currency = "USD"
       /\ crud[c].resp = Answer(400, "Unsupported currency", 0, "")
       /\ crud[d].op = "createIntent" /\ crud[d].intent.amount = 1150
       /\ crud[d].resp.code = 200
       /\ \E i \in IntentCalls(d) : gwOrders[i].amount = 115
       /\ Len(gwOrders) = 1

C26_BankersRounding ==
    (money.pc \in {"minor", "back"} /\ money.amount % 10 = 5) => money.paise % 2 = 0

\* the failing Payment insert of settle call s
PaymentInsertFails(s) ==
    /\ settle[s].pc = "paymentInsert"
    /\ settle'[s].pc = "done"
    /\ payments' = payments

\* C27: when the Payment insert of a settle call fails after its Order insert
\* succeeded, the Order of that call stays persisted, no Payment references
\* it, and the call answers with an error.
C27_OrderLeftWithoutPayment ==
    [][\A s \in SettleIds :
          PaymentInsertFails(s)
          => /\ settle'[s].resp.code = 500
             /\ orders' = orders
             /\ \E o \in orders' : o.id = settle[s].order
             /\ \A p \in payments' : p.orderId # settle[s].order]_vars

\* a step of a POST /refund call, or of a PUT /api/payments/:id/status call
RefundOrStatusUpdateStep ==
    \/ \E r \in RefundIds : refund'[r] # refund[r]
    \/ \E c \in CrudIds : crud'[c] # crud[c] /\ crud'[c].op = "updatePaymentStatus"

\* C28: the payment summary embedded in an Order is never brought in line
\* with the Payment: settle stores the Order with status Pending and
\* payment.status Pending without paidAt, whatever the status of the Payment,
\* and no step of a refund or of an update of a payment status changes an
\* Order.
C28_SummaryNeverSynced ==
    /\ [](\A o \in orders :
             o.status = "Pending" /\ o.payStatus = "Pending" /\ o.paidAt = 0)
    /\ [][\A s \in SettleIds :
             (settle[s].pc = "orderInsert" /\ settle'[s].pc = "paymentInsert")
             => \E o \in orders' \ orders :
                   /\ o.id = settle'[s].order
                   /\ o.status = "Pending" /\ o.payStatus = "Pending" /\ o.paidAt = 0]_vars
    /\ [][RefundOrStatusUpdateStep => orders' = orders]_vars

\* the Payment of an Order is Completed, the gateway has refunded it for a
\* refund call that has answered, and the Order is still Pending with
\* payment Pending
C28_Witness ==
    \E o \in orders, p \in payments, r \in RefundIds :
       /\ p.orderId = o.id
       /\ p.status = "Completed" /\ p.timestamps.completedAt # 0
       /\ refund[r].pc = "done" /\ refund[r].req.payment_id = p.paymentId
       /\ refund[r].rf.ok
       /\ o.status = "Pending" /\ o.payStatus = "Pending" /\ o.paidAt = 0

-----------------------------------------------------------------------------
(* Generation of order numbers *)

\* C29 (as claimed): an Order whose payload passed every check and whose
\* number the pre-save hook generated is inserted: neither POST /api/orders
\* nor settle fails because of the generated number, also after deletions
\* and when creations overlap.
C29_GeneratedNumberNeverFails ==
    [][/\ \A c \in CrudIds :
             (/\ crud[c].op = "createOrder" /\ crud[c].pc = "insert"
              /\ crud[c].body.orderNumber = ""
              /\ crud'[c].pc = "done")
             => crud'[c].resp.code = 201
       /\ \A s \in SettleIds :
             (settle[s].pc = "orderInsert" /\ settle'[s].pc # "orderInsert")
             => settle'[s].pc = "paymentInsert"]_vars

-----------------------------------------------------------------------------
(* Stored status values *)

\* the status that the request of call asks to store, "" when it names none
RequestedStatus(call) ==
    CASE call.op = "createOrder" -> call.body.status
      [] call.op \in {"updateOrder", "updatePayment"} -> call.patch.status
      [] call.op \in {"updateOrderStatus", "updatePaymentStatus"} -> call.status
      [] call.op = "createPayment" -> call.pay.status
      [] OTHER -> ""

\* the request of call is about an Order
OnOrders(call) == call.op \in {"createOrder", "updateOrder", "updateOrderStatus"}

\* the values the claim allows, spelled out
StoredOrderStatuses ==
    {"Pending", "Confirmed", "Processing", "Shipped", "Delivered", "Cancelled", "Returned"}
StoredPaymentStatuses ==
    {"Pending", "Processing", "Completed", "Failed", "Cancelled", "Refunded",
     "Partially Refunded"}
StoredRefundStatuses == {"Pending", "Processed", "Failed"}

\* C30: every stored Order has one of the seven order statuses, every stored
\* Payment one of the seven payment statuses and a refundStatus among
\* Pending, Processed and Failed, whatever settle, refund, create, update
\* and status-update calls have run; a call that would store another value
\* fails and changes neither collection.
C30_StoredStatusesAreEnumerated ==
    /\ [](/\ \A o \in orders : o.status \in StoredOrderStatuses
          /\ \A p \in payments :
                /\ p.status \in StoredPaymentStatuses
                /\ p.refundDetails.refundStatus \in StoredRefundStatuses)
    /\ [][\A c \in CrudIds :
             (/\ crud[c].pc = "idle" /\ crud'[c].pc # "idle"
              /\ RequestedStatus(crud'[c]) # ""
              /\ RequestedStatus(crud'[c]) \notin
                    (IF OnOrders(crud'[c]) THEN StoredOrderStatuses
                                          ELSE StoredPaymentStatuses))
             => /\ crud'[c].pc = "done"
                /\ crud'[c].resp.code >= 400
                /\ orders' = orders /\ payments' = payments]_vars
    /\ [][\A r \in RefundIds :
             (/\ refund[r].pc = "save" /\ refund'[r].pc = "done"
              /\ \/ refund[r].doc.refundDetails.refundStatus \notin StoredRefundStatuses
                 \/ refund[r].doc.status \notin StoredPaymentStatuses)
             => /\ refund'[r].resp.code = 500
                /\ payments' = payments]_vars

\* an update of a stored Completed Payment to a status outside the enum has
\* been refused
C30_Witness ==
    \E c \in CrudIds, p \in payments :
       /\ crud[c].op = "updatePayment" /\ crud[c].id = p.id
       /\ crud[c].patch.status = "Archived"
       /\ crud[c].resp.code = 500
       /\ p.status = "Completed"

====
